---- MODULE Spec2Model ----
(***************************************************************************)
(* The 8-puzzle A* solver of a_star.py: the State class (a board stored as *)
(* a list, position -> tile, 0 the empty space), its move generation, the  *)
(* three heuristics, the solvability test and the A* search.               *)
(*                                                                         *)
(* A Python list is modelled as a function with domain 0..n-1, so that the *)
(* indices of the model are the indices of the source.                     *)
(***************************************************************************)
EXTENDS Integers, Naturals, Sequences, FiniteSets, TLC

\* ------------------------------------------------------------------ lists
\* a Python list written as a literal, e.g. L(<<7,2,4,5,0,6,8,3,1>>)
L(seq) == [i \in 0..(Len(seq) - 1) |-> seq[i + 1]]

\* len(list)
len(list) == Cardinality(DOMAIN list)

\* list.index(v): the first index holding v (the callers below only look up
\* values that are present)
index(list, v) == CHOOSE i \in DOMAIN list :
                     /\ list[i] = v
                     /\ \A j \in 0..(i - 1) : list[j] # v

\* v in list
contains(list, v) == \E i \in DOMAIN list : list[i] = v

\* sum of f[0..i] for a function f over an initial segment of the naturals
RECURSIVE SumTo(_, _)
SumTo(f, i) == IF i < 0 THEN 0 ELSE f[i] + SumTo(f, i - 1)

abs(x) == IF x < 0 THEN 0 - x ELSE x

\* ------------------------------------------------------------- the boards
init_list == L(<<7, 2, 4, 5, 0, 6, 8, 3, 1>>)

goal_list == L(<<0, 1, 2, 3, 4, 5, 6, 7, 8>>)

\* tuple(self.state) < tuple(other.state): lexicographic order
state_lt(a, b) ==
    \/ \E i \in DOMAIN a \cap DOMAIN b :
          /\ a[i] < b[i]
          /\ \A j \in 0..(i - 1) : a[j] = b[j]
    \/ /\ len(a) < len(b)
       /\ \A j \in DOMAIN a : a[j] = b[j]

\* the table with one position mistyped: 7 for 8 at position 5
get_tile_neighbours_mistyped(tile) ==
    CASE tile = 0 -> <<1, 3>>
      [] tile = 1 -> <<0, 2, 4>>
      [] tile = 2 -> <<1, 5>>
      [] tile = 3 -> <<0, 4, 6>>
      [] tile = 4 -> <<1, 3, 5, 7>>
      [] tile = 5 -> <<2, 4, 7>>
      [] tile = 6 -> <<3, 7>>
      [] tile = 7 -> <<4, 6, 8>>
      [] tile = 8 -> <<5, 7>>

\* get_tile_neighbours(tile): the positions next to a position of the grid
get_tile_neighbours(tile) ==
    CASE tile = 0 -> <<1, 3>>
      [] tile = 1 -> <<0, 2, 4>>
      [] tile = 2 -> <<1, 5>>
      [] tile = 3 -> <<0, 4, 6>>
      [] tile = 4 -> <<1, 3, 5, 7>>
      [] tile = 5 -> <<2, 4, 8>>
      [] tile = 6 -> <<3, 7>>
      [] tile = 7 -> <<4, 6, 8>>
      [] tile = 8 -> <<5, 7>>

\* newstate[emptytile], newstate[i] = newstate[i], newstate[emptytile]
swap(state, a, b) == [state EXCEPT ![a] = state[b], ![b] = state[a]]

\* list.copy(): a new list holding the same elements
copy(list) == [i \in DOMAIN list |-> list[i]]

\* get_neighbours(self) with its effect on self: each board is made by a
\* swap in a copy of self.state, so states is the list of boards one move
\* away, in the order of get_tile_neighbours, and self.state is as before
get_neighbours_call(state) ==
    LET emptytile == index(state, 0)
        swaptiles == get_tile_neighbours(emptytile)
    IN  [states |-> [k \in 1..Len(swaptiles) |->
                       swap(copy(state), emptytile, swaptiles[k])],
         self_state |-> state]

\* the list get_neighbours returns
get_neighbours(state) == get_neighbours_call(state).states

\* the result of get_neighbours as a set
Range(seq) == {seq[k] : k \in DOMAIN seq}

\* ---------------------------------------------------------- the heuristics
\* h_1
num_misplaced_tiles(tiles, targets) ==
    SumTo([i \in 0..8 |->
             IF tiles[i] # targets[i] /\ tiles[i] # 0 THEN 1 ELSE 0], 8)

\* the distance with the columns left out
calc_manhattan_dist_rows_only(tile, target) ==
    abs((tile \div 3) - (target \div 3))

calc_manhattan_dist(tile, target) ==
    abs((tile \div 3) - (target \div 3)) + abs((tile % 3) - (target % 3))

\* h_2
sum_manhattan_dists(tiles, targets) ==
    SumTo([i \in 0..8 |->
             IF tiles[i] # 0
             THEN calc_manhattan_dist(i, index(targets, tiles[i]))
             ELSE 0], 8)

\* the inner function of linear_conflicts; line_positions is a list of three
\* positions
count_conflicts_line(current_state, target_state, line_positions) ==
    LET \* target_pos of the tile at the k-th position of the line (no tile
        \* is looked up for the empty space)
        target_pos == [k \in 0..2 |->
                         IF current_state[line_positions[k]] # 0
                         THEN index(target_state,
                                    current_state[line_positions[k]])
                         ELSE -1]
        \* (tile, pos, target_pos) of the k-th position is in tiles_in_line
        in_line == [k \in 0..2 |->
                      /\ current_state[line_positions[k]] # 0
                      /\ contains(line_positions, target_pos[k])]
        \* the pair i < j of tiles_in_line adds a conflict
        conflict(i, j) ==
            IF /\ in_line[i]
               /\ in_line[j]
               /\ (line_positions[i] < line_positions[j])
                     # (target_pos[i] < target_pos[j])
            THEN 1 ELSE 0
    IN  conflict(0, 1) + conflict(0, 2) + conflict(1, 2)

\* h_3 without the Manhattan distances added
linear_conflicts_alone(tiles, targets) ==
    LET rows == SumTo([row \in 0..2 |->
                   count_conflicts_line(tiles, targets,
                                        [i \in 0..2 |-> row * 3 + i])], 2)
        cols == SumTo([col \in 0..2 |->
                   count_conflicts_line(tiles, targets,
                                        [i \in 0..2 |-> i * 3 + col])], 2)
        total == rows + cols
    IN  total * 2

\* h_3
linear_conflicts(tiles, targets) ==
    LET rows == SumTo([row \in 0..2 |->
                   count_conflicts_line(tiles, targets,
                                        [i \in 0..2 |-> row * 3 + i])], 2)
        cols == SumTo([col \in 0..2 |->
                   count_conflicts_line(tiles, targets,
                                        [i \in 0..2 |-> i * 3 + col])], 2)
        total == rows + cols
    IN  total * 2 + sum_manhattan_dists(tiles, targets)

\* ------------------------------------------------------------- solvability
\* the inversions counted with the empty space left in the list
is_solvable_with_blank(state) ==
    LET inversions ==
          Cardinality({p \in (DOMAIN state) \X (DOMAIN state) :
                         /\ p[1] < p[2]
                         /\ state[p[1]] > state[p[2]]})
    IN  inversions % 2 = 0

is_solvable(state) ==
    LET inversions ==
          Cardinality({p \in (DOMAIN state) \X (DOMAIN state) :
                         /\ p[1] < p[2]
                         /\ state[p[1]] # 0
                         /\ state[p[2]] # 0
                         /\ state[p[1]] > state[p[2]]})
    IN  inversions % 2 = 0

\* ------------------------------------------------------------ construction
\* State.__init__(self, state): self.state = state.  The list is stored as
\* it is given: no length or permutation test is made.
State(state) == state

\* a board as section 3 of the assignment describes it: nine positions that
\* hold each of the tiles 0..8 once
IsPermutation(state) ==
    /\ DOMAIN state = 0..8
    /\ \A v \in 0..8 : \E i \in 0..8 : state[i] = v

\* ---------------------------------------------------------------- the heap
\* An entry of open_set is the tuple (f_score, g, state).  Python compares
\* tuples element by element, the states by State.__lt__.
entry_lt(a, b) ==
    \/ a[1] < b[1]
    \/ /\ a[1] = b[1]
       /\ \/ a[2] < b[2]
          \/ /\ a[2] = b[2]
             /\ state_lt(a[3], b[3])

\* heapq keeps the smallest entry at the front and heappop returns it.  The
\* heap is modelled by its entries in ascending order, so heappop takes the
\* head and heappush inserts in order (duplicates are kept).
heappush_front(heap, item) == <<item>> \o heap

heappush(heap, item) ==
    LET k == Cardinality({i \in DOMAIN heap : ~entry_lt(item, heap[i])})
    IN  SubSeq(heap, 1, k) \o <<item>> \o SubSeq(heap, k + 1, Len(heap))

\* ------------------------------------------------------------------ a_star
h1 == "num_misplaced_tiles"

h2 == "sum_manhattan_dists"

h3 == "linear_conflicts"

Heuristics == {h1, h2, h3}

\* h_n(tiles, targets) for the heuristic passed to a_star
h_n_of(name, tiles, targets) ==
    CASE name = h1 -> num_misplaced_tiles(tiles, targets)
      [] name = h2 -> sum_manhattan_dists(tiles, targets)
      [] name = h3 -> linear_conflicts(tiles, targets)

\* the path value returned when no solution is found (a path that is found
\* always holds at least the start state)
None == <<>>

\* the path left in the order it was collected in
reverse_forgotten(seq) == seq

reverse(seq) == [i \in 1..Len(seq) |-> seq[Len(seq) + 1 - i]]

\* while state in came_from: path.append(state); state = came_from[state]
RECURSIVE backtrack(_, _)
backtrack(state, cf) ==
    IF state \in DOMAIN cf THEN <<state>> \o backtrack(cf[state], cf)
    ELSE <<>>

\* the for loop over current_state.get_neighbours(), from neighbour k on;
\* acc is [came_from, g_scores, open_set]
RECURSIVE for_neighbours(_, _, _, _, _, _, _)
for_neighbours(nbrs, k, acc, closed, current_g, current, ctx) ==
    IF k > Len(nbrs) THEN acc
    ELSE LET neighbour == nbrs[k]
             tentative_g == current_g + 1
         IN  IF neighbour \in closed
             THEN for_neighbours(nbrs, k + 1, acc, closed, current_g, current, ctx)
             ELSE IF neighbour \notin DOMAIN acc.g_scores
                     \/ tentative_g < acc.g_scores[neighbour]
             THEN LET f_score == tentative_g
                                   + h_n_of(ctx.h_n, neighbour, ctx.target_state)
                  IN  for_neighbours(nbrs, k + 1,
                        [came_from |-> (neighbour :> current) @@ acc.came_from,
                         g_scores  |-> (neighbour :> tentative_g) @@ acc.g_scores,
                         open_set  |-> heappush(acc.open_set,
                                                <<f_score, tentative_g, neighbour>>)],
                        closed, current_g, current, ctx)
             ELSE for_neighbours(nbrs, k + 1, acc, closed, current_g, current, ctx)

\* ------------------------------------------------------------------ bounds
\* the start boards of a search lie at most this many moves from its target
MaxStartDist == 7

\* a search that has expanded this many nodes is followed no further
MaxExpand == 70

\* ------------------------------------------------------------------- state
VARIABLES
    self,            \* the State a_star is called on (the start board)
    target_state,    \* a_star's target_state argument
    h_n,             \* a_star's h_n argument, by name
    open_set,        \* the heap of (f_score, g, state) entries
    came_from,       \* dict: state -> the state preceding it
    closed_set,      \* set of the states expanded
    g_scores,        \* dict: state -> cheapest known cost from the start
    nodes_expanded,
    pc,              \* "loop": at the head of the while loop; "returned"
    results,         \* the tuples a_star has returned so far, by heuristic
    last,            \* what the last iteration of the loop did
    tiles,           \* the board the move and heuristic functions are applied to
    targets,         \* the target board the heuristics are given
    origin,          \* the board the moves started from
    depth,           \* the number of moves made from origin, where counted
    obj              \* the State object last constructed, [state |-> list]

astar_vars == <<self, target_state, h_n, open_set, came_from, closed_set,
                g_scores, nodes_expanded, pc, results, last>>

board_vars == <<tiles, targets, origin, depth>>

vars == <<astar_vars, board_vars, obj>>

\* no search is running
astar_idle ==
    /\ self = <<>>
    /\ target_state = <<>>
    /\ h_n = ""
    /\ open_set = <<>>
    /\ came_from = <<>>
    /\ closed_set = {}
    /\ g_scores = <<>>
    /\ nodes_expanded = 0
    /\ pc = "idle"
    /\ results = <<>>
    /\ last = [op |-> "idle"]

\* no board is being moved
boards_idle ==
    /\ tiles = <<>>
    /\ targets = <<>>
    /\ origin = <<>>
    /\ depth = 0

\* no object has been constructed
NoObject == [state |-> <<>>, built |-> FALSE]

\* the boards at most d moves from the boards of frontier
RECURSIVE within(_, _, _)
within(frontier, seen, d) ==
    IF d = 0 \/ frontier = {} THEN seen
    ELSE LET nxt == (UNION {Range(get_neighbours(s)) : s \in frontier}) \ seen
         IN  within(nxt, seen \cup nxt, d - 1)

\* a board with two tiles of t exchanged: not solvable towards t
swap_two_tiles(t) ==
    LET a == CHOOSE i \in 0..8 : t[i] # 0 /\ \A j \in 0..(i - 1) : t[j] = 0
        b == CHOOSE i \in 0..8 : i > a /\ t[i] # 0
                                 /\ \A j \in (a + 1)..(i - 1) : t[j] = 0
    IN  swap(t, a, b)

\* a list of nine tiles that is no permutation, which State() accepts too
ones_list == L(<<0, 1, 1, 1, 1, 1, 1, 1, 1>>)

Targets == {goal_list, L(<<1, 0, 2, 3, 4, 5, 6, 7, 8>>)}

\* a board 14 moves from the target [1,0,2,3,4,5,6,7,8]
far_list == L(<<3, 1, 4, 0, 2, 8, 6, 7, 5>>)

Starts(t) ==
    within({t}, {t}, MaxStartDist)
        \cup {swap_two_tiles(t), ones_list}
        \cup (IF is_solvable(t) = is_solvable(far_list) THEN {far_list} ELSE {})

\* lines 178-189: the locals of a_star before the loop
a_star_entry(start, target, h) ==
    /\ open_set = <<<<h_n_of(h, start, target), 0, start>>>>
    /\ came_from = <<>>
    /\ closed_set = {}
    /\ g_scores = (start :> 0)
    /\ nodes_expanded = 0

Init ==
    /\ target_state \in {State(t) : t \in Targets}
    /\ self \in {State(s) : s \in Starts(target_state)}
    /\ h_n \in Heuristics
    /\ a_star_entry(self, target_state, h_n)
    /\ pc = "loop"
    /\ results = <<>>
    /\ last = [op |-> "call"]
    /\ boards_idle
    /\ obj = NoObject

\* heappop(open_set)
current_f == open_set[1][1]

current_g == open_set[1][2]

current_state == open_set[1][3]

\* the popped entry counted before it is seen to be stale
Skip_counted ==
    /\ pc = "loop"
    /\ open_set # <<>>
    /\ current_state \in closed_set
    /\ open_set' = Tail(open_set)
    /\ nodes_expanded' = nodes_expanded + 1
    /\ last' = [op |-> "skip", g |-> current_g, state |-> current_state]
    /\ UNCHANGED <<self, target_state, h_n, came_from, closed_set, g_scores,
                   pc, results, board_vars, obj>>

\* lines 196-197: the popped state was expanded before
Skip ==
    /\ pc = "loop"
    /\ open_set # <<>>
    /\ current_state \in closed_set
    /\ open_set' = Tail(open_set)
    /\ last' = [op |-> "skip", g |-> current_g, state |-> current_state]
    /\ UNCHANGED <<self, target_state, h_n, came_from, closed_set, g_scores,
                   nodes_expanded, pc, results, board_vars, obj>>

\* lines 200-210: the popped state is the target; the path is rebuilt
ReturnPath ==
    /\ pc = "loop"
    /\ open_set # <<>>
    /\ current_state \notin closed_set
    /\ current_state = target_state
    /\ LET path == reverse(Append(backtrack(current_state, came_from), self))
       IN  results' = (h_n :> <<path, Len(path) - 1, nodes_expanded>>) @@ results
    /\ open_set' = Tail(open_set)
    /\ pc' = "returned"
    /\ last' = [op |-> "goal", g |-> current_g, state |-> current_state]
    /\ UNCHANGED <<self, target_state, h_n, came_from, closed_set, g_scores,
                   nodes_expanded, board_vars, obj>>

\* the expansion without closed_set.add(current_state)
Expand_not_closed ==
    /\ pc = "loop"
    /\ open_set # <<>>
    /\ current_state \notin closed_set
    /\ current_state # target_state
    /\ nodes_expanded < MaxExpand
    /\ LET acc == for_neighbours(get_neighbours(current_state), 1,
                                 [came_from |-> came_from,
                                  g_scores |-> g_scores,
                                  open_set |-> Tail(open_set)],
                                 closed_set, current_g, current_state,
                                 [h_n |-> h_n, target_state |-> target_state])
       IN  /\ came_from' = acc.came_from
           /\ g_scores' = acc.g_scores
           /\ open_set' = acc.open_set
    /\ nodes_expanded' = nodes_expanded + 1
    /\ last' = [op |-> "expand", g |-> current_g, state |-> current_state]
    /\ UNCHANGED <<self, target_state, h_n, pc, results, closed_set,
                   board_vars, obj>>

\* lines 213-229: the popped state is expanded
Expand ==
    /\ pc = "loop"
    /\ open_set # <<>>
    /\ current_state \notin closed_set
    /\ current_state # target_state
    /\ nodes_expanded < MaxExpand
    /\ LET closed == closed_set \cup {current_state}
           acc == for_neighbours(get_neighbours(current_state), 1,
                                 [came_from |-> came_from,
                                  g_scores |-> g_scores,
                                  open_set |-> Tail(open_set)],
                                 closed, current_g, current_state,
                                 [h_n |-> h_n, target_state |-> target_state])
       IN  /\ closed_set' = closed
           /\ came_from' = acc.came_from
           /\ g_scores' = acc.g_scores
           /\ open_set' = acc.open_set
    /\ nodes_expanded' = nodes_expanded + 1
    /\ last' = [op |-> "expand", g |-> current_g, state |-> current_state]
    /\ UNCHANGED <<self, target_state, h_n, pc, results, board_vars, obj>>

\* line 232: the heap is empty
ReturnNone ==
    /\ pc = "loop"
    /\ open_set = <<>>
    /\ results' = (h_n :> <<None, 0, nodes_expanded>>) @@ results
    /\ pc' = "returned"
    /\ last' = [op |-> "none"]
    /\ UNCHANGED <<self, target_state, h_n, open_set, came_from, closed_set,
                   g_scores, nodes_expanded, board_vars, obj>>

\* lines 312-314: the same start and target are searched with h_1, then h_2,
\* then h_3
next_heuristic(h) == IF h = h1 THEN h2 ELSE h3

CallNext ==
    /\ pc = "returned"
    /\ h_n # h3
    /\ h_n' = next_heuristic(h_n)
    /\ open_set' = <<<<h_n_of(h_n', self, target_state), 0, self>>>>
    /\ came_from' = <<>>
    /\ closed_set' = {}
    /\ g_scores' = (self :> 0)
    /\ nodes_expanded' = 0
    /\ pc' = "loop"
    /\ last' = [op |-> "call"]
    /\ UNCHANGED <<self, target_state, results, board_vars, obj>>

Next == Skip \/ ReturnPath \/ Expand \/ ReturnNone \/ CallNext

Spec == Init /\ [][Next]_vars

\* ------------------------------------------------- the moves of the puzzle
\* the targets the heuristics are evaluated against: the empty space in a
\* corner, on an edge and in the centre
HeuristicTargets == {goal_list, L(<<1, 2, 3, 4, 0, 5, 6, 7, 8>>)}

\* what a search leaves alone while boards are moved
astar_rest == <<self, target_state, h_n, open_set, came_from, closed_set,
                g_scores, nodes_expanded, pc, results>>

astar_rest_idle ==
    /\ self = <<>>
    /\ target_state = <<>>
    /\ h_n = ""
    /\ open_set = <<>>
    /\ came_from = <<>>
    /\ closed_set = {}
    /\ g_scores = <<>>
    /\ nodes_expanded = 0
    /\ pc = "idle"
    /\ results = <<>>

\* Every board is visited: the boards that moves make from the goal and from
\* the goal with two tiles exchanged.
InitMoves ==
    /\ targets = State(goal_list)
    /\ origin \in {State(goal_list), State(swap_two_tiles(goal_list))}
    /\ tiles = origin
    /\ depth = 0
    /\ astar_rest_idle
    /\ last = [op |-> "idle"]
    /\ obj = NoObject

\* lines 44-54: get_neighbours is called on the board and one of the boards
\* it returns is taken up; last records whether the list of the board it
\* was called on is after the call what it was before
Move(k) ==
    /\ k \in DOMAIN get_neighbours_call(tiles).states
    /\ tiles' = get_neighbours_call(tiles).states[k]
    /\ last' = [op |-> "get_neighbours",
                intact |-> get_neighbours_call(tiles).self_state = tiles]
    /\ UNCHANGED <<targets, origin, depth, astar_rest, obj>>

NextMoves == \E k \in 1..4 : Move(k)

SpecMoves == InitMoves /\ [][NextMoves]_vars

\* the moves from the goal with their number counted, up to MaxWalk
MaxWalk == 26

InitWalk ==
    /\ targets = State(goal_list)
    /\ origin = targets
    /\ tiles = origin
    /\ depth = 0
    /\ astar_idle
    /\ obj = NoObject

Walk(k) ==
    /\ depth < MaxWalk
    /\ k \in DOMAIN get_neighbours(tiles)
    /\ tiles' = get_neighbours(tiles)[k]
    /\ depth' = depth + 1
    /\ UNCHANGED <<targets, origin, astar_vars, obj>>

NextWalk == \E k \in 1..4 : Walk(k)

SpecWalk == InitWalk /\ [][NextWalk]_vars

\* ------------------------------------------------------- claims on a_star
\* the boards at most d moves from target t, for the targets searched
Ball == [t \in Targets |-> [d \in 0..MaxStartDist |-> within({t}, {t}, d)]]

\* the start of the search was made from the target by moves, so the target
\* can be reached from it
start_in_ball == self \in Ball[target_state][MaxStartDist]

\* the minimum number of moves between the start and the target
min_moves ==
    CHOOSE d \in 0..MaxStartDist :
        /\ self \in Ball[target_state][d]
        /\ \A e \in 0..(d - 1) : self \notin Ball[target_state][e]

valid_pair == IsPermutation(self) /\ IsPermutation(target_state)

\* b is a with the empty space exchanged with a tile next to it on the grid
one_blank_swap(a, b) ==
    \E p \in 0..8, q \in 0..8 :
        /\ a[p] = 0
        /\ abs((p \div 3) - (q \div 3)) + abs((p % 3) - (q % 3)) = 1
        /\ b = [a EXCEPT ![p] = a[q], ![q] = a[p]]

C2_PathValid ==
    \A h \in DOMAIN results :
        LET path == results[h][1]
            steps == results[h][2]
        IN  path # None =>
              /\ Len(path) = steps + 1
              /\ path[1] = self
              /\ path[Len(path)] = target_state
              /\ \A i \in 1..(Len(path) - 1) :
                    /\ one_blank_swap(path[i], path[i + 1])
                    /\ path[i + 1] \in Range(get_neighbours(path[i]))

C2_Witness ==
    \E h \in DOMAIN results :
        /\ results[h][1] # None
        /\ results[h][2] = MaxStartDist
        /\ Len(results[h][1]) = MaxStartDist + 1

\* the number of boards moves can make from a board of nine distinct tiles:
\* half of the 9! permutations
HalfPerms == (9 * 8 * 7 * 6 * 5 * 4 * 3 * 2) \div 2

\* for boards of nine distinct tiles, the target can be reached from the
\* start exactly when the two have the same inversion parity
target_reachable == is_solvable(self) = is_solvable(target_state)

\* what bounds the iterations the loop has left: the boards not yet expanded
\* (each expansion pushes at most four entries) and the entries of the heap
variant == (HalfPerms - Cardinality(closed_set)) * 5 + Len(open_set)

C3_Returns ==
    /\ (valid_pair /\ start_in_ball) => target_reachable
    /\ valid_pair =>
          \A s \in closed_set :
              IsPermutation(s) /\ is_solvable(s) = is_solvable(self)
    /\ (pc = "loop" /\ valid_pair /\ start_in_ball) =>
          /\ open_set # <<>>
          /\ \/ current_state \in closed_set
             \/ current_state = target_state
             \/ nodes_expanded < MaxExpand
    /\ \A h \in DOMAIN results :
          valid_pair => ((results[h][1] = None) <=> ~target_reachable)

C3_Progress ==
    (pc = "loop" /\ valid_pair) =>
        \/ pc' = "returned"
        \/ variant' < variant /\ variant' >= 0

reachable_from(s) == within({s}, {s}, HalfPerms)

C10_State ==
    /\ pc \in {"loop", "returned"} => nodes_expanded = Cardinality(closed_set)
    /\ (pc = "loop" /\ open_set # <<>> /\ current_state \notin closed_set) =>
          current_g = g_scores[current_state]
    /\ last.op = "expand" =>
          last.state \in closed_set /\ last.g = g_scores[last.state]
    /\ \A h \in DOMAIN results :
          results[h][1] = None =>
              results[h][3] = Cardinality(reachable_from(self))

C10_Step ==
    /\ (pc = "loop" /\ open_set # <<>> /\ current_state \in closed_set) =>
          UNCHANGED <<closed_set, came_from, g_scores, nodes_expanded>>
    /\ (pc = "loop" /\ closed_set' # closed_set) =>
          /\ current_state \notin closed_set
          /\ closed_set' = closed_set \cup {current_state}
          /\ nodes_expanded' = nodes_expanded + 1

MaxInputLen == 4

MaxInputTile == 2

RECURSIVE lists_of_len(_)
lists_of_len(n) ==
    IF n = 0 THEN {<<>>}
    ELSE {Append(l, v) : l \in lists_of_len(n - 1), v \in 0..MaxInputTile}

InputLists ==
    {L(l) : l \in UNION {lists_of_len(n) : n \in 0..MaxInputLen}}
        \cup {goal_list, init_list, ones_list}

InitNew ==
    /\ obj = NoObject
    /\ astar_idle
    /\ boards_idle

\* lines 15-16: State(state)
Construct(list) ==
    /\ obj' = [state |-> State(list), built |-> TRUE]
    /\ UNCHANGED <<astar_vars, board_vars>>

NextNew == \E list \in InputLists : Construct(list)

SpecNew == InitNew /\ [][NextNew]_vars

\* ------------------------------------------------- claims on the functions
\* C4: a State is only ever constructed from a list of nine tiles that holds
\* each of 0..8 once; from any other list the construction fails, so no
\* State object holds such a list.
C4_OnlyPermutations == obj.built => IsPermutation(obj.state)

\* C5: is_solvable(s) is true exactly for the boards the goal
\* [0,1,2,3,4,5,6,7,8] can be reached from (the boards that moves make from
\* the goal, as a move can be taken back); its value is the same for a board
\* and for each of its neighbours, and it is true for the goal.
C5_Solvable ==
    /\ is_solvable(tiles) <=> (origin = goal_list)
    /\ \A n \in Range(get_neighbours(tiles)) :
          is_solvable(n) = is_solvable(tiles)
    /\ is_solvable(goal_list)

C5_Witness ==
    /\ origin = goal_list
    /\ tiles = init_list
    /\ is_solvable(tiles)

\* C7: for every board s and target t, num_misplaced_tiles(s,t) <=
\* sum_manhattan_dists(s,t) <= linear_conflicts(s,t), the three are integers
\* >= 0, and the three are 0 when s is t.
C7_HeuristicOrder ==
    \A t \in HeuristicTargets :
        \A m \in {num_misplaced_tiles(tiles, t)},
           d \in {sum_manhattan_dists(tiles, t)},
           c \in {linear_conflicts(tiles, t)} :
            /\ {m, d, c} \subseteq Nat
            /\ m <= d
            /\ d <= c
            /\ (tiles = t) => (m = 0 /\ d = 0 /\ c = 0)

C7_Witness ==
    /\ num_misplaced_tiles(tiles, goal_list) >= 6
    /\ num_misplaced_tiles(tiles, goal_list)
          < sum_manhattan_dists(tiles, goal_list)
    /\ sum_manhattan_dists(tiles, goal_list) + 4
          <= linear_conflicts(tiles, goal_list)

\* C8: the move relation is symmetric: a board is among the neighbours of
\* each of its neighbours; and get_neighbours leaves the list of the board it
\* is called on as it was.
C8_Symmetric ==
    /\ \A n \in Range(get_neighbours(tiles)) :
          tiles \in Range(get_neighbours(n))
    /\ last.op = "get_neighbours" => last.intact

C8_Witness ==
    /\ last.op = "get_neighbours"
    /\ last.intact
    /\ tiles = init_list
    /\ Len(get_neighbours(tiles)) = 4
    /\ \A n \in Range(get_neighbours(tiles)) :
          tiles \in Range(get_neighbours(n))

\* C9: each heuristic is admissible: its value for a board is at most the
\* minimum number of moves between the board and the target, so at most the
\* number of moves of every walk from the target to the board.
C9_Admissible ==
    \A h \in Heuristics : h_n_of(h, tiles, targets) <= depth

====
